---- MODULE Spec2Model ----
(***************************************************************************)
(* Model of share/settings/users.go: the Users set (an RWMutex-protected   *)
(* map replaced wholesale by Reset) and the UserIndex that reloads it from *)
(* a JSON file (fsnotify watch task) or a database table (LISTEN task).    *)
(*                                                                         *)
(* Go strings that the code takes apart (the "name:secret" keys, table     *)
(* names) are sequences of one-character strings; strings the code only    *)
(* passes around (paths, regex sources) are TLA+ strings.                  *)
(***************************************************************************)
EXTENDS Integers, Sequences, FiniteSets, TLC

VARIABLES
    inner,      \* Users.inner: the active map, name -> User
    wlock,      \* RWMutex: the thread holding the write lock, or NoThread
    rlocks,     \* RWMutex: the threads holding a read lock
    pc,         \* per thread: position in the code
    users,      \* per thread: the users slice handed to Reset
    m,          \* per thread: Reset's local map m
    idx,        \* per thread: how many users Reset's loop has handled
    ret,        \* per thread: where the thread continues when Reset returns
    cur,        \* per reader: the Get/Len call in progress
    rlog,       \* per reader: the calls completed so far, with their results
    snaps,      \* history: every complete mapping that has been the active one
    calls,      \* number of writer calls made so far
    reads,      \* number of reader calls made so far
    configFile, \* UserIndex.configFile
    files,      \* the file system: path -> content
    watching,   \* per watch task: the path its watcher was added on
    events,     \* per watch task: watcher.Events, the events not yet received
    loc,        \* per thread: the locals of loadUserIndex
    result,     \* what the last LoadUsers call returned
    built,      \* history: (file content, mapping) of every successful load
    nload,      \* number of LoadUsers calls made so far
    nwrite,     \* number of file system events so far
    wevents,    \* per watch task: number of write events sent to it
    attempts,   \* per watch task: number of reloads it has started
    tbl,        \* the database table: its columns and rows
    notes,      \* per listen task: notifications raised and not yet received
    subscribed, \* per listen task: its LISTEN has been executed
    exited,     \* "" while the process runs, else why log.Fatalf ended it
    dbres,      \* what the last LoadUsersFromDatabase call returned
    dloc,       \* per thread: the locals of the database code
    lastDetect, \* history: the answer of the latest columnExists call
    conns,      \* history: number of database connections opened
    queries,    \* history: the SELECT texts built
    ndb,        \* number of LoadUsersFromDatabase calls made so far
    ndone,      \* number of those calls that returned nil
    ntbl,       \* number of table changes so far
    cin,        \* a pattern list handed to the pattern loops on their own
    cout        \* what the pattern loops made of cin

\* the variables the reader threads write, besides pc and rlocks
readVars == <<cur, rlog, reads>>
\* the variables of the pattern loops run on their own
pureVars == <<cin, cout>>
\* the variables only the callers and the environment write
fileVars == <<configFile, files, watching, events, loc, result, built,
              nload, nwrite, wevents, attempts, pureVars>>
dbVars == <<tbl, notes, subscribed, exited, dbres, dloc, lastDetect, conns, queries,
            ndb, ndone, ntbl, pureVars>>
outerVars == <<calls, fileVars, dbVars>>

vars == <<inner, wlock, rlocks, pc, users, m, idx, ret, snaps, readVars, outerVars>>

----------------------------------------------------------------------------
(* Bounds *)

MaxReads == 2       \* Get/Len calls made by the reader threads
MaxCalls == 2       \* Reset calls made by the writer threads
MaxLoads == 2       \* LoadUsers calls
MaxWrites == 2      \* file system events
MaxDbLoads == 1     \* LoadUsersFromDatabase calls
MaxTblChanges == 2  \* changes of the database table
MaxPatterns == 3    \* address patterns of one entry or row
MaxServeReads == 1  \* Get/Len calls made on a directory while it reloads

----------------------------------------------------------------------------
(* Values *)

NoThread == <<"none", 0>>
Readers  == {<<"reader", 1>>, <<"reader", 2>>}
Writers  == {<<"writer", 1>>}

nA == <<"a">>
nB == <<"b">>
sX == <<"x">>
sY == <<"y">>
Names == {nA, nB}

UserAllowAll == [kind |-> "all", re |-> ""]
Regexp(p)    == [kind |-> "re", re |-> p]

User(n, p, a) == [Name |-> n, Pass |-> p, Addrs |-> a]

EmptyMap == [n \in {} |-> User(<<>>, <<>>, <<>>)]

\* m[key] = user on a Go map
MapPut(mp, key, user) ==
    [n \in DOMAIN mp \cup {key} |-> IF n = key THEN user ELSE mp[n]]

\* user, found := u.inner[key]  -- <<>> stands for (nil, false)
MapGet(mp, key) == IF key \in DOMAIN mp THEN <<mp[key]>> ELSE <<>>

\* len(u.inner)
MapLen(mp) == Cardinality(DOMAIN mp)

----------------------------------------------------------------------------
(* sync.RWMutex *)

CanLock  == wlock = NoThread /\ rlocks = {}

\* an RLock that also waits for every Reset call in progress, as it would if
\* Reset took the write lock on entry
CanRLockOutsideReset ==
    /\ wlock = NoThread
    /\ \A t \in DOMAIN pc : pc[t] \notin {"R_new", "R_stage", "R_swap", "R_unlock"}

CanRLock == wlock = NoThread

----------------------------------------------------------------------------
(* Users.Reset, lines 64-72, run by thread t; the caller has set users[t]   *)
(* and ret[t] and moved t to "R_new".                                      *)

\* a Reset that fills the live map's entries into m first
NewStagingMapFromLive(live) == live

\* line 65: m := map[string]*User{}
NewStagingMap(live) == EmptyMap

\* line 67: m[u.Name] = u
StagePut(mp, user) == MapPut(mp, user.Name, user)

\* a Reset that fills the live map in place
LiveFilledInPlace(live, staged) == staged

\* lines 65-68: u.inner while Reset is still filling m; m is a map of its
\* own, so u.inner keeps its value
LiveWhileStaging(live, staged) == live

\* the complete mapping of a users slice: each name maps to the last user
\* of the slice that carries it
FullMap(us) ==
    LET ns == {us[i].Name : i \in 1..Len(us)}
        last(n) == CHOOSE i \in 1..Len(us) :
                      /\ us[i].Name = n
                      /\ \A j \in (i + 1)..Len(us) : us[j].Name # n
    IN  [n \in ns |-> us[last(n)]]

ResetPcs == {"R_new", "R_stage", "R_swap", "R_unlock", "R_ret"}

\* line 65
ResetNew(t) ==
    /\ pc[t] = "R_new"
    /\ m' = [m EXCEPT ![t] = NewStagingMap(inner)]
    /\ idx' = [idx EXCEPT ![t] = 0]
    /\ pc' = [pc EXCEPT ![t] = "R_stage"]
    /\ UNCHANGED <<inner, wlock, rlocks, users, ret, snaps, readVars, outerVars>>

\* lines 66-68, one iteration
ResetStage(t) ==
    /\ pc[t] = "R_stage"
    /\ idx[t] < Len(users[t])
    /\ m' = [m EXCEPT ![t] = StagePut(m[t], users[t][idx[t] + 1])]
    /\ idx' = [idx EXCEPT ![t] = idx[t] + 1]
    /\ inner' = LiveWhileStaging(inner, m'[t])
    /\ UNCHANGED <<wlock, rlocks, pc, users, ret, snaps, readVars, outerVars>>

\* line 69: u.Lock()
ResetLock(t) ==
    /\ pc[t] = "R_stage"
    /\ idx[t] = Len(users[t])
    /\ CanLock
    /\ wlock' = t
    /\ pc' = [pc EXCEPT ![t] = "R_swap"]
    /\ UNCHANGED <<inner, rlocks, users, m, idx, ret, snaps, readVars, outerVars>>

\* line 70: u.inner = m
ResetSwap(t) ==
    /\ pc[t] = "R_swap"
    /\ inner' = m[t]
    /\ snaps' = Append(snaps, FullMap(users[t]))
    /\ pc' = [pc EXCEPT ![t] = "R_unlock"]
    /\ UNCHANGED <<wlock, rlocks, users, m, idx, ret, readVars, outerVars>>

\* line 71: u.Unlock()
ResetUnlock(t) ==
    /\ pc[t] = "R_unlock"
    /\ wlock' = NoThread
    /\ pc' = [pc EXCEPT ![t] = "R_ret"]
    /\ UNCHANGED <<inner, rlocks, users, m, idx, ret, snaps, readVars, outerVars>>

\* line 72: Reset returns to its caller
ResetReturn(t) ==
    /\ pc[t] = "R_ret"
    /\ pc' = [pc EXCEPT ![t] = ret[t]]
    /\ UNCHANGED <<inner, wlock, rlocks, users, m, idx, ret, snaps, readVars, outerVars>>

Reset(t) ==
    \/ ResetNew(t)
    \/ ResetStage(t)
    \/ ResetLock(t)
    \/ ResetSwap(t)
    \/ ResetUnlock(t)
    \/ ResetReturn(t)

----------------------------------------------------------------------------
(* Users.Len (lines 28-33) and Users.Get (lines 36-41), run by reader r    *)

NoCall == [op |-> "none", key |-> <<>>, lo |-> 0, res |-> <<>>, during |-> FALSE]

\* some thread is inside a Reset call
InReset == \E t \in DOMAIN pc : pc[t] \in ResetPcs

\* what a call returns on the mapping mp
Answer(op, key, mp) == IF op = "Len" THEN <<MapLen(mp)>> ELSE MapGet(mp, key)

\* the reader calls Get(key) or Len()
ReadCall(r) ==
    /\ pc[r] = "idle"
    /\ reads < MaxReads
    /\ reads' = reads + 1
    /\ \E op \in {"Get", "Len"} : \E key \in Names :
          /\ op = "Len" => key = nA
          /\ cur' = [cur EXCEPT ![r] = [NoCall EXCEPT !.op = op, !.key = key,
                                                      !.lo = Len(snaps)]]
    /\ pc' = [pc EXCEPT ![r] = "G_rlock"]
    /\ UNCHANGED <<inner, wlock, rlocks, users, m, idx, ret, snaps, rlog, outerVars>>

\* lines 29, 37: u.RLock()
ReadRLock(r) ==
    /\ pc[r] = "G_rlock"
    /\ CanRLock
    /\ rlocks' = rlocks \cup {r}
    /\ pc' = [pc EXCEPT ![r] = "G_read"]
    /\ UNCHANGED <<inner, wlock, users, m, idx, ret, snaps, readVars, outerVars>>

\* lines 30, 38: l := len(u.inner) / user, found := u.inner[key]
ReadRead(r) ==
    /\ pc[r] = "G_read"
    /\ cur' = [cur EXCEPT ![r].res = Answer(cur[r].op, cur[r].key, inner),
                          ![r].during = InReset]
    /\ pc' = [pc EXCEPT ![r] = "G_runlock"]
    /\ UNCHANGED <<inner, wlock, rlocks, users, m, idx, ret, snaps, rlog, reads, outerVars>>

\* lines 31-32, 39-40: u.RUnlock() and return
ReadRUnlock(r) ==
    /\ pc[r] = "G_runlock"
    /\ rlocks' = rlocks \ {r}
    /\ rlog' = [rlog EXCEPT ![r] = Append(rlog[r],
                   [op |-> cur[r].op, key |-> cur[r].key, res |-> cur[r].res,
                    during |-> cur[r].during])]
    /\ cur' = [cur EXCEPT ![r] = NoCall]
    /\ pc' = [pc EXCEPT ![r] = "idle"]
    /\ UNCHANGED <<inner, wlock, users, m, idx, ret, snaps, reads, outerVars>>

Read(r) ==
    \/ ReadCall(r)
    \/ ReadRLock(r)
    \/ ReadRead(r)
    \/ ReadRUnlock(r)

----------------------------------------------------------------------------
(* File mode: values                                                       *)

Main == <<"main", 0>>
WatchThreads == {<<"watch", i>> : i \in 1..MaxLoads}

Paths == {"p1", "p2"}

\* regex sources that regexp.Compile rejects
BadPatterns == {"["}

\* the "name:secret" keys of the credentials files
kAX  == <<"a", ":", "x">>
kAY  == <<"a", ":", "y">>
kBY  == <<"b", ":", "y">>
kAXY == <<"a", ":", "x", ":", "y">>
kNoName  == <<":", "x">>
kNoColon == <<"a", "x">>

NoObj == [k \in {} |-> <<>>]
Unreadable == [kind |-> "unreadable", obj |-> NoObj]
BadJSON    == [kind |-> "badjson", obj |-> NoObj]
Json(o)    == [kind |-> "json", obj |-> o]

fAliceBob == Json((kAX :> <<"10\\.0\\.0\\.1", "*">>) @@ (kBY :> <<>>))
fColon    == Json((kAXY :> <<"">>))
fDup      == Json((kAX :> <<"^10\\.">>) @@ (kAY :> <<"*">>))
fBadRegex == Json((kAX :> <<"*">>) @@ (kBY :> <<"^10\\.", "[">>))
fNoName   == Json((kAX :> <<"*">>) @@ (kNoName :> <<>>))
fNoColon  == Json((kNoColon :> <<"*">>))

\* what a write may leave in a file
FileContents == {BadJSON, fAliceBob, fColon, fDup, fBadRegex, fNoName, fNoColon}

InitFiles == ("p1" :> fAliceBob) @@ ("p2" :> Unreadable)

\* fsnotify.Op, a set of flags
OpWrite  == {"Write"}
OpChmod  == {"Chmod"}
OpRemove == {"Remove"}

NoLoc == [b |-> Unreadable, err |-> "", before |-> EmptyMap, sv |-> 0, resets |-> 0,
          path |-> ""]

----------------------------------------------------------------------------
(* File mode: parsing, lines 279-302                                       *)

\* ParseAuth (share/settings/user.go): splits "name:secret" on the first
\* colon; without a colon both parts are empty
ParseAuth(auth) ==
    IF \E i \in 1..Len(auth) : auth[i] = ":"
    THEN LET c == CHOOSE i \in 1..Len(auth) :
                     /\ auth[i] = ":"
                     /\ \A j \in 1..(i - 1) : auth[j] # ":"
         IN  [Name |-> SubSeq(auth, 1, c - 1), Pass |-> SubSeq(auth, c + 1, Len(auth))]
    ELSE [Name |-> <<>>, Pass |-> <<>>]

\* only "*" taken for the allow-all pattern
IsAllowAllStarOnly(r) == r = "*"

\* lines 291, 148: the pattern stands for any address
IsAllowAll(r) == r = "" \/ r = "*"

\* a compile error that goes unnoticed
CompileNeverFails(r) == FALSE

\* regexp.Compile(r) returns an error
CompileFails(r) == r \in BadPatterns

\* lines 290-300 (and 147-158): the matchers of the first i patterns, and
\* whether compiling one of them failed
RECURSIVE CompileAddrs(_, _)
CompileAddrs(remotes, i) ==
    IF i = 0 THEN [err |-> FALSE, addrs |-> <<>>]
    ELSE LET prev == CompileAddrs(remotes, i - 1)
             r == remotes[i]
         IN  IF prev.err THEN prev
             ELSE IF IsAllowAll(r)
                  THEN [err |-> FALSE, addrs |-> Append(prev.addrs, UserAllowAll)]
             ELSE IF CompileFails(r)
                  THEN [err |-> TRUE, addrs |-> prev.addrs]
             ELSE [err |-> FALSE, addrs |-> Append(prev.addrs, Regexp(r))]

\* line 287: the entry is rejected for its name
NameRejected(name) == name = <<>>

\* lines 283-302: the loop over raw, visiting its keys in the given order;
\* the error it returns ("" for none) and the users slice built so far
RECURSIVE ParseEntries(_, _, _)
ParseEntries(raw, order, i) ==
    IF i = 0 THEN [err |-> "", users |-> <<>>]
    ELSE LET prev == ParseEntries(raw, order, i - 1)
             auth == order[i]
             pa == ParseAuth(auth)
             ca == CompileAddrs(raw[auth], Len(raw[auth]))
         IN  IF prev.err # "" THEN prev
             ELSE IF NameRejected(pa.Name)
                  THEN [err |-> "Invalid user:pass string", users |-> prev.users]
             ELSE IF ca.err
                  THEN [err |-> "Invalid address regex", users |-> prev.users]
             ELSE [err |-> "",
                   users |-> Append(prev.users, User(pa.Name, pa.Pass, ca.addrs))]

\* the orders in which a Go range loop may visit the keys of a map
Orders(S) ==
    {o \in [1..Cardinality(S) -> S] : \A i, j \in 1..Cardinality(S) : i # j => o[i] # o[j]}

\* os.ReadFile(path)
ReadFile(path) == IF path \in DOMAIN files THEN files[path] ELSE Unreadable

----------------------------------------------------------------------------
(* UserIndex.loadUserIndex, lines 271-306, run by thread t (the caller of  *)
(* LoadUsers or a watch task)                                              *)

coreVars == <<inner, wlock, rlocks, snaps>>

\* lines 272-274
LoadCheck(t) ==
    /\ pc[t] = "L_272"
    /\ loc' = [loc EXCEPT ![t] = [NoLoc EXCEPT !.before = inner, !.sv = Len(snaps),
                                               !.path = configFile,
                                               !.err = IF configFile = ""
                                                       THEN "configuration file not set"
                                                       ELSE ""]]
    /\ pc' = [pc EXCEPT ![t] = IF configFile = "" THEN "L_ret" ELSE "L_275"]
    /\ UNCHANGED <<coreVars, users, m, idx, ret, readVars, calls, dbVars>>
    /\ UNCHANGED <<configFile, files, watching, events, result, built,
                   nload, nwrite, wevents, attempts>>

\* lines 275-302 with an error return: the file read, the unmarshalling and
\* the loop over the entries
LoadFail(t) ==
    /\ pc[t] = "L_275"
    /\ LET b == ReadFile(configFile)
       IN  \E e \in {"Failed to read auth file", "Invalid JSON",
                     "Invalid user:pass string", "Invalid address regex"} :
              /\ \/ e = "Failed to read auth file" /\ b.kind = "unreadable"
                 \/ e = "Invalid JSON" /\ b.kind = "badjson"
                 \/ /\ b.kind = "json"
                    /\ \E o \in Orders(DOMAIN b.obj) :
                          ParseEntries(b.obj, o, Len(o)).err = e
              /\ loc' = [loc EXCEPT ![t].b = b, ![t].err = e, ![t].path = configFile]
    /\ pc' = [pc EXCEPT ![t] = "L_ret"]
    /\ UNCHANGED <<coreVars, users, m, idx, ret, readVars, calls, dbVars>>
    /\ UNCHANGED <<configFile, files, watching, events, result, built,
                   nload, nwrite, wevents, attempts>>

\* lines 275-304 without an error: the users slice is built and Reset called
LoadParsed(t) ==
    /\ pc[t] = "L_275"
    /\ LET b == ReadFile(configFile)
       IN  /\ b.kind = "json"
           /\ \E o \in Orders(DOMAIN b.obj) :
                 LET r == ParseEntries(b.obj, o, Len(o))
                 IN  /\ r.err = ""
                     /\ users' = [users EXCEPT ![t] = r.users]
           /\ loc' = [loc EXCEPT ![t].b = b, ![t].resets = loc[t].resets + 1,
                                  ![t].path = configFile]
    /\ ret' = [ret EXCEPT ![t] = "L_ret"]
    /\ pc' = [pc EXCEPT ![t] = "R_new"]
    /\ UNCHANGED <<coreVars, m, idx, readVars, calls, dbVars>>
    /\ UNCHANGED <<configFile, files, watching, events, result, built,
                   nload, nwrite, wevents, attempts>>

\* the history of successful loads, extended when loadUserIndex returns
BuiltAfter(t) ==
    IF loc[t].err = "" THEN built \cup {[b |-> loc[t].b, snap |-> m[t]]} ELSE built

----------------------------------------------------------------------------
(* UserIndex.LoadUsers, lines 90-100, and addWatchEvents, lines 247-268     *)

\* lines 90-93: LoadUsers(path) is called
CallLoadUsers(path) ==
    /\ pc[Main] = "idle"
    /\ nload < MaxLoads
    /\ nload' = nload + 1
    /\ configFile' = path
    /\ result' = "pending"
    /\ pc' = [pc EXCEPT ![Main] = "L_272"]
    /\ UNCHANGED <<coreVars, users, m, idx, ret, readVars, calls, dbVars>>
    /\ UNCHANGED <<files, watching, events, loc, built, nwrite, wevents, attempts>>

\* a LoadUsers that adds the watch whatever the load returned
StartsWatchAlways(err) == TRUE

\* whether LoadUsers goes on to addWatchEvents after loadUserIndex returned err
\* (line 93)
StartsWatch(err) == err = ""

\* lines 93-95: the initial load failed
LoadUsersFail ==
    /\ pc[Main] = "L_ret"
    /\ ~StartsWatch(loc[Main].err)
    /\ result' = loc[Main].err
    /\ pc' = [pc EXCEPT ![Main] = "idle"]
    /\ UNCHANGED <<coreVars, users, m, idx, ret, readVars, calls, dbVars>>
    /\ UNCHANGED <<configFile, files, watching, events, loc, built,
                   nload, nwrite, wevents, attempts>>

\* line 93, 96: the initial load succeeded, addWatchEvents is called
LoadUsersLoaded ==
    /\ pc[Main] = "L_ret"
    /\ StartsWatch(loc[Main].err)
    /\ built' = BuiltAfter(Main)
    /\ pc' = [pc EXCEPT ![Main] = "A_248"]
    /\ UNCHANGED <<coreVars, users, m, idx, ret, readVars, calls, dbVars>>
    /\ UNCHANGED <<configFile, files, watching, events, loc, result,
                   nload, nwrite, wevents, attempts>>

\* lines 248-254, 97: the watcher cannot be created or the path not added
AddWatchFail ==
    /\ pc[Main] = "A_248"
    /\ \E e \in {"fsnotify: NewWatcher failed", "fsnotify: Add failed"} : result' = e
    /\ pc' = [pc EXCEPT ![Main] = "idle"]
    /\ UNCHANGED <<coreVars, users, m, idx, ret, readVars, calls, dbVars>>
    /\ UNCHANGED <<configFile, files, watching, events, loc, built,
                   nload, nwrite, wevents, attempts>>

\* lines 248-267, 99: the watcher is added on u.configFile, the watch task is
\* started and LoadUsers returns nil
AddWatch ==
    /\ pc[Main] = "A_248"
    /\ \E w \in WatchThreads :
          /\ pc[w] = "unborn"
          /\ \A v \in WatchThreads : v[2] < w[2] => pc[v] # "unborn"
          /\ watching' = [watching EXCEPT ![w] = configFile]
          /\ pc' = [pc EXCEPT ![Main] = "idle", ![w] = "W_wait"]
    /\ result' = "nil"
    /\ UNCHANGED <<coreVars, users, m, idx, ret, readVars, calls, dbVars>>
    /\ UNCHANGED <<configFile, files, events, loc, built, nload, nwrite, wevents, attempts>>

\* a watch task that takes every event for a write
IsWriteAlways(op) == TRUE

\* line 257: the event is a write
IsWrite(op) == "Write" \in op

\* lines 256-259: the watch task receives an event that is no write
WatchSkip(w) ==
    /\ pc[w] = "W_wait"
    /\ events[w] # <<>>
    /\ ~IsWrite(Head(events[w]))
    /\ events' = [events EXCEPT ![w] = Tail(events[w])]
    /\ UNCHANGED <<coreVars, pc, users, m, idx, ret, readVars, calls, dbVars>>
    /\ UNCHANGED <<configFile, files, watching, loc, result, built,
                   nload, nwrite, wevents, attempts>>

\* lines 256-260: the watch task receives a write and calls loadUserIndex
WatchReload(w) ==
    /\ pc[w] = "W_wait"
    /\ events[w] # <<>>
    /\ IsWrite(Head(events[w]))
    /\ events' = [events EXCEPT ![w] = Tail(events[w])]
    /\ attempts' = [attempts EXCEPT ![w] = attempts[w] + 1]
    /\ pc' = [pc EXCEPT ![w] = "L_272"]
    /\ UNCHANGED <<coreVars, users, m, idx, ret, readVars, calls, dbVars>>
    /\ UNCHANGED <<configFile, files, watching, loc, result, built,
                   nload, nwrite, wevents>>

\* a watch task that ends when a reload fails
WatchEndsOnError(err) == IF err = "" THEN "W_wait" ELSE "W_exit"

\* lines 260-265: where the watch task goes on after loadUserIndex returned
\* err: both branches only log and fall through to the next event
WatchGoesOn(err) == "W_wait"

\* lines 260-265: loadUserIndex returned, the outcome is logged and the task
\* waits for the next event
WatchLoaded(w) ==
    /\ pc[w] = "L_ret"
    /\ built' = BuiltAfter(w)
    /\ pc' = [pc EXCEPT ![w] = WatchGoesOn(loc[w].err)]
    /\ UNCHANGED <<coreVars, users, m, idx, ret, readVars, calls, dbVars>>
    /\ UNCHANGED <<configFile, files, watching, events, loc, result,
                   nload, nwrite, wevents, attempts>>

----------------------------------------------------------------------------
(* The file system                                                         *)

\* the watch tasks whose watcher reports events of path p
WatchersOf(p) == {w \in WatchThreads : pc[w] # "unborn" /\ watching[w] = p}

\* a write to path p
WriteFile(p, c) ==
    /\ nwrite < MaxWrites
    /\ nwrite' = nwrite + 1
    /\ files' = [files EXCEPT ![p] = c]
    /\ events' = [w \in WatchThreads |->
                    IF w \in WatchersOf(p) THEN Append(events[w], OpWrite) ELSE events[w]]
    /\ wevents' = [w \in WatchThreads |->
                    IF w \in WatchersOf(p) THEN wevents[w] + 1 ELSE wevents[w]]
    /\ UNCHANGED <<coreVars, pc, users, m, idx, ret, readVars, calls, dbVars>>
    /\ UNCHANGED <<configFile, watching, loc, result, built, nload, attempts>>

\* path p is removed or made unreadable: an event that is no write
RemoveFile(p, op) ==
    /\ nwrite < MaxWrites
    /\ nwrite' = nwrite + 1
    /\ files' = [files EXCEPT ![p] = Unreadable]
    /\ events' = [w \in WatchThreads |->
                    IF w \in WatchersOf(p) THEN Append(events[w], op) ELSE events[w]]
    /\ UNCHANGED <<coreVars, pc, users, m, idx, ret, readVars, calls, dbVars>>
    /\ UNCHANGED <<configFile, watching, loc, result, built, nload, wevents, attempts>>

----------------------------------------------------------------------------
(* Database mode: values                                                   *)

ListenThreads == {<<"listen", i>> : i \in 1..MaxDbLoads}

Letters == {"a", "b", "c", "d", "e", "f", "g", "h", "i", "j", "k", "l", "m",
            "n", "o", "p", "q", "r", "s", "t", "u", "v", "w", "x", "y", "z",
            "A", "B", "C", "D", "E", "F", "G", "H", "I", "J", "K", "L", "M",
            "N", "O", "P", "Q", "R", "S", "T", "U", "V", "W", "X", "Y", "Z"}
Digits == {"0", "1", "2", "3", "4", "5", "6", "7", "8", "9"}

\* line 183
DefaultTable == <<"u", "s", "e", "r", "s">>

\* the tableName arguments: <<>> is the nil pointer, <<s>> points to s
TableArgs == { <<>>, << <<"_", "T", "1">> >>, << <<"1", "t">> >>,
               << <<"t", ";", "x">> >>, << <<>> >> }

\* the connection strings, and the ones pgx.ParseURI accepts
ConnStrings == {"postgres://db/auth", "not a uri"}
GoodURIs == {"postgres://db/auth"}

Row(n, p, a) == [username |-> n, password |-> p, addresses |-> a]

\* the states of the table: without and with the addresses column
tNoColumn  == [hasAddr |-> FALSE, rows |-> <<Row(nA, sX, <<>>), Row(nB, sY, <<>>)>>]
tColumn    == [hasAddr |-> TRUE,
               rows |-> <<Row(nA, sX, <<"^10\\.">>), Row(nB, sY, <<"*", "^10\\.">>)>>]
tNoAddrs   == [hasAddr |-> TRUE, rows |-> <<Row(nA, sY, <<>>)>>]
tBadRegex  == [hasAddr |-> TRUE, rows |-> <<Row(nA, sX, <<"*">>), Row(nB, sY, <<"[">>)>>]
TableStates == {tNoColumn, tColumn, tNoAddrs, tBadRegex}

NoDloc == [cs |-> "", tn |-> <<>>, table |-> <<>>, connErr |-> FALSE,
           exists |-> FALSE, detected |-> FALSE, rows |-> <<>>, resets |-> 0,
           recv |-> 0, done |-> 0, qn |-> 0]

----------------------------------------------------------------------------
(* updateUsersData, lines 117-180, run by thread t (the caller of          *)
(* LoadUsersFromDatabase or a listen task)                                 *)

\* log.Fatalf: the message is logged and the process exits
Fatal(why) ==
    /\ exited' = why
    /\ UNCHANGED <<inner, wlock, rlocks, pc, users, m, idx, ret, snaps, readVars,
                   calls, fileVars>>
    /\ UNCHANGED <<tbl, notes, subscribed, dbres, dloc, lastDetect, conns, queries,
                   ndb, ndone, ntbl>>

\* a columnExists that keeps the answer of the first call
ColumnExistsCached(last, table) == IF last = <<>> THEN table.hasAddr ELSE last[1]

\* columnExists, lines 102-115: the information_schema query, run anew by
\* every call; last is the answer of the call before
ColumnExists(last, table) == table.hasAddr

\* lines 122-126: the SELECT text
SelectText(addressesExists, tableName) ==
    IF addressesExists
    THEN <<"SELECT username, password, addresses FROM ">> \o tableName
    ELSE <<"SELECT username, password FROM ">> \o tableName

\* lines 119-126: the column is looked up and the query text built
UpdateDetect(t) ==
    /\ pc[t] = "U_119"
    /\ LET e == ColumnExists(lastDetect, tbl)
       IN  /\ dloc' = [dloc EXCEPT ![t].exists = e, ![t].detected = tbl.hasAddr]
           /\ lastDetect' = <<e>>
           /\ queries' = queries \cup {SelectText(e, dloc[t].table)}
    /\ pc' = [pc EXCEPT ![t] = "U_128"]
    /\ UNCHANGED <<inner, wlock, rlocks, users, m, idx, ret, snaps, readVars, calls, fileVars>>
    /\ UNCHANGED <<tbl, notes, subscribed, exited, dbres, conns, ndb, ndone, ntbl>>

\* lines 110-113: the information_schema query fails
UpdateDetectFatal(t) ==
    /\ pc[t] = "U_119"
    /\ Fatal("Error checking if column exists")

\* lines 140-170: the user built from one row
RowUser(addressesExists, row) ==
    IF addressesExists
    THEN LET ca == CompileAddrs(row.addresses, Len(row.addresses))
         IN  [err |-> ca.err, user |-> User(row.username, row.password, ca.addrs)]
    ELSE [err |-> FALSE, user |-> User(row.username, row.password, <<UserAllowAll>>)]

\* lines 135-171: the users slice of the first i rows, and whether a pattern
\* of one of them failed to compile
RECURSIVE ScanRows(_, _, _)
ScanRows(addressesExists, rows, i) ==
    IF i = 0 THEN [err |-> FALSE, users |-> <<>>]
    ELSE LET prev == ScanRows(addressesExists, rows, i - 1)
             ru == RowUser(addressesExists, rows[i])
         IN  IF prev.err THEN prev
             ELSE IF ru.err THEN [err |-> TRUE, users |-> prev.users]
             ELSE [err |-> FALSE, users |-> Append(prev.users, ru.user)]

\* the SELECT names a column the table does not have
SelectFails(t) == dloc[t].exists /\ ~tbl.hasAddr

\* history: the number of the next SELECT, counting the SELECTs that have
\* read the table in the order in which they ran
NextQueryNumber ==
    1 + (CHOOSE n \in {dloc[t].qn : t \in DOMAIN dloc} :
            \A t \in DOMAIN dloc : dloc[t].qn <= n)

\* lines 128-178: the SELECT runs, every row is scanned and Reset is called
UpdateQuery(t) ==
    /\ pc[t] = "U_128"
    /\ ~SelectFails(t)
    /\ LET r == ScanRows(dloc[t].exists, tbl.rows, Len(tbl.rows))
       IN  /\ ~r.err
           /\ users' = [users EXCEPT ![t] = r.users]
    /\ dloc' = [dloc EXCEPT ![t].rows = tbl.rows, ![t].resets = dloc[t].resets + 1,
                             ![t].qn = NextQueryNumber]
    /\ ret' = [ret EXCEPT ![t] = "U_ret"]
    /\ pc' = [pc EXCEPT ![t] = "R_new"]
    /\ UNCHANGED <<inner, wlock, rlocks, m, idx, snaps, readVars, calls, fileVars>>
    /\ UNCHANGED <<tbl, notes, subscribed, exited, dbres, lastDetect, conns, queries,
                   ndb, ndone, ntbl>>

\* lines 129-132, 142-145, 161-164, 173-176: the query or a scan fails
UpdateQueryFatal(t) ==
    /\ pc[t] = "U_128"
    /\ Fatal("Error in getting users data")

\* lines 151-155: a pattern of a row does not compile
UpdateRegexFatal(t) ==
    /\ pc[t] = "U_128"
    /\ ~SelectFails(t)
    /\ ScanRows(dloc[t].exists, tbl.rows, Len(tbl.rows)).err
    /\ Fatal("Invalid address regex")

----------------------------------------------------------------------------
(* UserIndex.LoadUsersFromDatabase, lines 182-208                          *)

\* a check that lets every table name through
TableNameAlwaysOK(tn) == TRUE

\* lines 185-187: tableName is nil or matches ^[a-zA-Z_][a-zA-Z0-9_]*$
TableNameOK(tn) ==
    IF tn = <<>> THEN TRUE
    ELSE LET name == tn[1]
         IN  /\ Len(name) >= 1
             /\ name[1] \in Letters \cup {"_"}
             /\ \A i \in 2..Len(name) : name[i] \in Letters \cup Digits \cup {"_"}

\* LoadUsersFromDatabase(connString, tableName) is called
CallLoadDb(cs, tn) ==
    /\ pc[Main] = "idle"
    /\ ndb < MaxDbLoads
    /\ ndb' = ndb + 1
    /\ dbres' = "pending"
    /\ dloc' = [dloc EXCEPT ![Main] = [NoDloc EXCEPT !.cs = cs, !.tn = tn]]
    /\ pc' = [pc EXCEPT ![Main] = "D_185"]
    /\ UNCHANGED <<inner, wlock, rlocks, users, m, idx, ret, snaps, readVars, calls, fileVars>>
    /\ UNCHANGED <<tbl, notes, subscribed, exited, lastDetect, conns, queries, ndone, ntbl>>

\* lines 183-192: the table name is accepted
DbNameOK ==
    /\ pc[Main] = "D_185"
    /\ TableNameOK(dloc[Main].tn)
    /\ dloc' = [dloc EXCEPT ![Main].table = IF dloc[Main].tn = <<>> THEN DefaultTable
                                            ELSE dloc[Main].tn[1]]
    /\ pc' = [pc EXCEPT ![Main] = "D_194"]
    /\ UNCHANGED <<inner, wlock, rlocks, users, m, idx, ret, snaps, readVars, calls, fileVars>>
    /\ UNCHANGED <<tbl, notes, subscribed, exited, dbres, lastDetect, conns, queries,
                   ndb, ndone, ntbl>>

\* lines 187-188: the table name is rejected; log.Fatalf ends the process
\* and the return of line 189 is never reached
DbNameFatal ==
    /\ pc[Main] = "D_185"
    /\ ~TableNameOK(dloc[Main].tn)
    /\ Fatal("Invalid table name")

\* lines 194-198: the connection string does not parse
DbUriFatal ==
    /\ pc[Main] = "D_194"
    /\ dloc[Main].cs \notin GoodURIs
    /\ Fatal("Error in Parsing the URI")

\* lines 194, 200: the connection string parses and pgx.Connect is called,
\* which opens the connection or returns an error
DbConnect ==
    /\ pc[Main] = "D_194"
    /\ dloc[Main].cs \in GoodURIs
    /\ \E failed \in BOOLEAN :
          /\ dloc' = [dloc EXCEPT ![Main].connErr = failed]
          /\ conns' = IF failed THEN conns ELSE conns + 1
    /\ pc' = [pc EXCEPT ![Main] = "D_201"]
    /\ UNCHANGED <<inner, wlock, rlocks, users, m, idx, ret, snaps, readVars, calls, fileVars>>
    /\ UNCHANGED <<tbl, notes, subscribed, exited, dbres, lastDetect, queries,
                   ndb, ndone, ntbl>>

\* line 201: go listenForChanges(u, connString, defaultTableName)
DbSpawnListen ==
    /\ pc[Main] = "D_201"
    /\ \E l \in ListenThreads :
          /\ pc[l] = "unborn"
          /\ \A k \in ListenThreads : k[2] < l[2] => pc[k] # "unborn"
          /\ dloc' = [dloc EXCEPT ![l] = [NoDloc EXCEPT !.cs = dloc[Main].cs,
                                                        !.table = dloc[Main].table]]
          /\ pc' = [pc EXCEPT ![Main] = "D_202", ![l] = "N_212"]
    /\ UNCHANGED <<inner, wlock, rlocks, users, m, idx, ret, snaps, readVars, calls, fileVars>>
    /\ UNCHANGED <<tbl, notes, subscribed, exited, dbres, lastDetect, conns, queries,
                   ndb, ndone, ntbl>>

\* lines 202-205: pgx.Connect had failed
DbConnectFatal ==
    /\ pc[Main] = "D_202"
    /\ dloc[Main].connErr
    /\ Fatal("Error in connecting to database")

\* lines 202, 206-207: the connection is open, updateUsersData is called
DbLoad ==
    /\ pc[Main] = "D_202"
    /\ ~dloc[Main].connErr
    /\ pc' = [pc EXCEPT ![Main] = "U_119"]
    /\ UNCHANGED <<inner, wlock, rlocks, users, m, idx, ret, snaps, readVars, outerVars>>

\* lines 179, 207: updateUsersData returned nil and so does the call
DbReturn ==
    /\ pc[Main] = "U_ret"
    /\ dbres' = "nil"
    /\ ndone' = ndone + 1
    /\ pc' = [pc EXCEPT ![Main] = "idle"]
    /\ UNCHANGED <<inner, wlock, rlocks, users, m, idx, ret, snaps, readVars, calls, fileVars>>
    /\ UNCHANGED <<tbl, notes, subscribed, exited, dloc, lastDetect, conns, queries,
                   ndb, ntbl>>

----------------------------------------------------------------------------
(* listenForChanges, lines 210-244, run by listen task l                   *)

\* lines 212-223: the connection string is parsed and the connection opened
ListenConnect(l) ==
    /\ pc[l] = "N_212"
    /\ dloc[l].cs \in GoodURIs
    /\ conns' = conns + 1
    /\ pc' = [pc EXCEPT ![l] = "N_225"]
    /\ UNCHANGED <<inner, wlock, rlocks, users, m, idx, ret, snaps, readVars, calls, fileVars>>
    /\ UNCHANGED <<tbl, notes, subscribed, exited, dbres, dloc, lastDetect, queries,
                   ndb, ndone, ntbl>>

\* lines 213-216, 219-222: parsing or connecting fails
ListenConnectFatal(l) ==
    /\ pc[l] = "N_212"
    /\ Fatal("Error in connecting the database")

\* lines 225-230: LISTEN users_data_updates
ListenSubscribe(l) ==
    /\ pc[l] = "N_225"
    /\ subscribed' = [subscribed EXCEPT ![l] = TRUE]
    /\ pc' = [pc EXCEPT ![l] = "N_233"]
    /\ UNCHANGED <<inner, wlock, rlocks, users, m, idx, ret, snaps, readVars, calls, fileVars>>
    /\ UNCHANGED <<tbl, notes, exited, dbres, dloc, lastDetect, conns, queries,
                   ndb, ndone, ntbl>>

\* lines 226-228: the LISTEN command fails
ListenSubscribeFatal(l) ==
    /\ pc[l] = "N_225"
    /\ Fatal("Unable to execute LISTEN command")

\* a loop that logs the notification and waits for the next one
AfterNotificationWaitAgain == "N_233"

\* lines 238-239: where the task goes once WaitForNotification has returned
\* a notification: it logs it and calls updateUsersData
AfterNotification == "U_119"

\* lines 233-239: a notification arrives and updateUsersData is called
ListenNotified(l) ==
    /\ pc[l] = "N_233"
    /\ notes[l] > 0
    /\ notes' = [notes EXCEPT ![l] = notes[l] - 1]
    /\ dloc' = [dloc EXCEPT ![l].resets = 0, ![l].recv = dloc[l].recv + 1]
    /\ pc' = [pc EXCEPT ![l] = AfterNotification]
    /\ UNCHANGED <<inner, wlock, rlocks, users, m, idx, ret, snaps, readVars, calls, fileVars>>
    /\ UNCHANGED <<tbl, subscribed, exited, dbres, lastDetect, conns, queries,
                   ndb, ndone, ntbl>>

\* lines 234-236: waiting for a notification fails
ListenWaitFatal(l) ==
    /\ pc[l] = "N_233"
    /\ Fatal("Error waiting for notification")

\* lines 239-243: updateUsersData returned nil, the task waits again
ListenLoaded(l) ==
    /\ pc[l] = "U_ret"
    /\ dloc' = [dloc EXCEPT ![l].done = dloc[l].done + 1]
    /\ pc' = [pc EXCEPT ![l] = "N_233"]
    /\ UNCHANGED <<inner, wlock, rlocks, users, m, idx, ret, snaps, readVars, calls, fileVars>>
    /\ UNCHANGED <<tbl, notes, subscribed, exited, dbres, lastDetect, conns, queries,
                   ndb, ndone, ntbl>>

----------------------------------------------------------------------------
(* The database                                                            *)

\* the table is changed and the database raises the notification, which
\* reaches the sessions that have executed LISTEN
TableChange(new) ==
    /\ ntbl < MaxTblChanges
    /\ new # tbl
    /\ ntbl' = ntbl + 1
    /\ tbl' = new
    /\ notes' = [l \in ListenThreads |-> IF subscribed[l] THEN notes[l] + 1 ELSE notes[l]]
    /\ UNCHANGED <<inner, wlock, rlocks, pc, users, m, idx, ret, snaps, readVars,
                   calls, fileVars>>
    /\ UNCHANGED <<subscribed, exited, dbres, dloc, lastDetect, conns, queries, ndb, ndone>>

----------------------------------------------------------------------------
(* The Users set on its own: writer threads call Reset, Set and Del while  *)
(* reader threads call Get and Len.                                        *)

uA(p, a) == User(nA, p, a)
uB(p, a) == User(nB, p, a)

\* the users slices handed to Reset
ResetInputs ==
    { <<uA(sX, <<UserAllowAll>>), uB(sX, <<>>)>>,
      <<uA(sY, <<UserAllowAll>>), uB(sY, <<>>)>>,
      <<uA(sX, <<>>), uA(sY, <<>>)>> }

\* a caller starts Reset(us)
CallReset(t) ==
    /\ pc[t] = "idle"
    /\ calls < MaxCalls
    /\ \E us \in ResetInputs : users' = [users EXCEPT ![t] = us]
    /\ ret' = [ret EXCEPT ![t] = "idle"]
    /\ pc' = [pc EXCEPT ![t] = "R_new"]
    /\ calls' = calls + 1
    /\ UNCHANGED <<inner, wlock, rlocks, m, idx, snaps, readVars, fileVars, dbVars>>

UsersThreads == Readers \cup Writers

\* NewUsers (lines 23-25) and NewUserIndex (lines 82-87), for the threads T
InitCore(T) ==
    /\ inner = EmptyMap
    /\ wlock = NoThread
    /\ rlocks = {}
    /\ users = [t \in T |-> <<>>]
    /\ m = [t \in T |-> EmptyMap]
    /\ idx = [t \in T |-> 0]
    /\ ret = [t \in T |-> "idle"]
    /\ cur = [r \in Readers |-> NoCall]
    /\ rlog = [r \in Readers |-> <<>>]
    /\ snaps = <<EmptyMap>>
    /\ calls = 0
    /\ reads = 0

InitFileVars(T) ==
    /\ configFile = ""
    /\ files = InitFiles
    /\ watching = [w \in WatchThreads |-> ""]
    /\ events = [w \in WatchThreads |-> <<>>]
    /\ loc = [t \in T |-> NoLoc]
    /\ result = "none"
    /\ built = {}
    /\ nload = 0
    /\ nwrite = 0
    /\ wevents = [w \in WatchThreads |-> 0]
    /\ attempts = [w \in WatchThreads |-> 0]

InitDbVars(T) ==
    /\ tbl = tNoColumn
    /\ notes = [l \in ListenThreads |-> 0]
    /\ subscribed = [l \in ListenThreads |-> FALSE]
    /\ exited = ""
    /\ dbres = "none"
    /\ dloc = [t \in T |-> NoDloc]
    /\ lastDetect = <<>>
    /\ conns = 0
    /\ queries = {}
    /\ ndb = 0
    /\ ndone = 0
    /\ ntbl = 0

\* no pattern list is under study
NoOut == [file |-> <<>>, row |-> <<>>]

InitPure(lists) ==
    /\ cin \in lists
    /\ cout = NoOut

InitUsers ==
    /\ InitPure({<<>>})
    /\ InitCore(UsersThreads)
    /\ pc = [t \in UsersThreads |-> "idle"]
    /\ InitFileVars(UsersThreads)
    /\ InitDbVars(UsersThreads)

NextUsers ==
    \/ \E t \in Writers : CallReset(t)
    \/ \E t \in Writers : ResetNew(t)
    \/ \E t \in Writers : ResetStage(t)
    \/ \E t \in Writers : ResetLock(t)
    \/ \E t \in Writers : ResetSwap(t)
    \/ \E t \in Writers : ResetUnlock(t)
    \/ \E t \in Writers : ResetReturn(t)
    \/ \E r \in Readers : ReadCall(r)
    \/ \E r \in Readers : ReadRLock(r)
    \/ \E r \in Readers : ReadRead(r)
    \/ \E r \in Readers : ReadRUnlock(r)

SpecUsers == InitUsers /\ [][NextUsers]_vars

----------------------------------------------------------------------------
(* File mode: LoadUsers calls, the watch tasks they start and the file     *)
(* system                                                                  *)

FileThreads == {Main} \cup WatchThreads

InitFile ==
    /\ InitPure({<<>>})
    /\ InitCore(FileThreads)
    /\ pc = [t \in FileThreads |-> IF t = Main THEN "idle" ELSE "unborn"]
    /\ InitFileVars(FileThreads)
    /\ InitDbVars(FileThreads)

\* the steps of file mode, with LoadUsers called on the paths in callPaths
\* and the files in writePaths written with the contents in contents
FileSteps(callPaths, writePaths, contents, otherOps) ==
    \/ \E path \in callPaths : CallLoadUsers(path)
    \/ \E t \in FileThreads : LoadCheck(t)
    \/ \E t \in FileThreads : LoadFail(t)
    \/ \E t \in FileThreads : LoadParsed(t)
    \/ \E t \in FileThreads : ResetNew(t)
    \/ \E t \in FileThreads : ResetStage(t)
    \/ \E t \in FileThreads : ResetLock(t)
    \/ \E t \in FileThreads : ResetSwap(t)
    \/ \E t \in FileThreads : ResetUnlock(t)
    \/ \E t \in FileThreads : ResetReturn(t)
    \/ LoadUsersFail
    \/ LoadUsersLoaded
    \/ AddWatchFail
    \/ AddWatch
    \/ \E w \in WatchThreads : WatchSkip(w)
    \/ \E w \in WatchThreads : WatchReload(w)
    \/ \E w \in WatchThreads : WatchLoaded(w)
    \/ \E p \in writePaths : \E c \in contents : WriteFile(p, c)
    \/ \E p \in writePaths : \E op \in otherOps : RemoveFile(p, op)

NextFile == FileSteps(Paths \cup {""}, Paths, FileContents, {OpChmod, OpRemove})

SpecFile == InitFile /\ [][NextFile]_vars

\* the steps of the program that thread t takes: the Go scheduler runs every
\* goroutine that can take a step
ThreadStep(t) ==
    \/ LoadCheck(t) \/ LoadFail(t) \/ LoadParsed(t) \/ Reset(t)
    \/ t = Main /\ (LoadUsersFail \/ LoadUsersLoaded \/ AddWatchFail \/ AddWatch)
    \/ t \in WatchThreads /\ (WatchSkip(t) \/ WatchReload(t) \/ WatchLoaded(t))

\* the watch loop under one credentials file that is rewritten with a valid
\* or an invalid content, or touched without a write
NextWatch == FileSteps({"p1", "p2"}, {"p1"}, {fColon, fBadRegex}, {OpChmod})

FairSpecWatch ==
    /\ InitFile
    /\ [][NextWatch]_vars
    /\ \A t \in FileThreads : WF_vars(ThreadStep(t))

----------------------------------------------------------------------------
(* Database mode: LoadUsersFromDatabase calls, the listen tasks they start *)
(* and the database; nothing moves once log.Fatalf has ended the process   *)

DbThreads == {Main} \cup ListenThreads

InitDb ==
    /\ InitPure({<<>>})
    /\ InitCore(DbThreads)
    /\ pc = [t \in DbThreads |-> IF t = Main THEN "idle" ELSE "unborn"]
    /\ InitFileVars(DbThreads)
    /\ InitDbVars(DbThreads)

\* a log.Fatalf that logs and lets the process go on
RunningAlways == TRUE

\* log.Fatalf ends the process with os.Exit(1): every goroutine stops where
\* it is
Running == exited = ""

NextDb ==
    /\ Running
    /\ \/ \E cs \in ConnStrings : \E tn \in TableArgs : CallLoadDb(cs, tn)
       \/ DbNameOK
       \/ DbNameFatal
       \/ DbUriFatal
       \/ DbConnect
       \/ DbSpawnListen
       \/ DbConnectFatal
       \/ DbLoad
       \/ DbReturn
       \/ \E t \in DbThreads : UpdateDetect(t)
       \/ \E t \in DbThreads : UpdateDetectFatal(t)
       \/ \E t \in DbThreads : UpdateQuery(t)
       \/ \E t \in DbThreads : UpdateQueryFatal(t)
       \/ \E t \in DbThreads : UpdateRegexFatal(t)
       \/ \E t \in DbThreads : ResetNew(t)
       \/ \E t \in DbThreads : ResetStage(t)
       \/ \E t \in DbThreads : ResetLock(t)
       \/ \E t \in DbThreads : ResetSwap(t)
       \/ \E t \in DbThreads : ResetUnlock(t)
       \/ \E t \in DbThreads : ResetReturn(t)
       \/ \E l \in ListenThreads : ListenConnect(l)
       \/ \E l \in ListenThreads : ListenConnectFatal(l)
       \/ \E l \in ListenThreads : ListenSubscribe(l)
       \/ \E l \in ListenThreads : ListenSubscribeFatal(l)
       \/ \E l \in ListenThreads : ListenNotified(l)
       \/ \E l \in ListenThreads : ListenWaitFatal(l)
       \/ \E l \in ListenThreads : ListenLoaded(l)
       \/ \E new \in TableStates : TableChange(new)

SpecDb == InitDb /\ [][NextDb]_vars

\* the steps of the program that thread t takes while the process runs: the
\* Go scheduler runs every goroutine that can take a step. A SELECT that
\* names a missing column and a pattern that does not compile fail for
\* sure; the failures of the connection may or may not happen.
DbThreadStep(t) ==
    /\ exited = ""
    /\ \/ UpdateDetect(t) \/ UpdateQuery(t) \/ UpdateRegexFatal(t)
       \/ SelectFails(t) /\ UpdateQueryFatal(t)
       \/ Reset(t)
       \/ t = Main /\ (DbNameOK \/ DbNameFatal \/ DbUriFatal \/ DbConnect
                          \/ DbSpawnListen \/ DbConnectFatal \/ DbLoad \/ DbReturn)
       \/ t \in ListenThreads /\ (ListenConnect(t) \/ ListenSubscribe(t)
                                       \/ ListenNotified(t) \/ ListenLoaded(t))

FairSpecDb ==
    /\ InitDb
    /\ [][NextDb]_vars
    /\ \A t \in DbThreads : WF_vars(DbThreadStep(t))

----------------------------------------------------------------------------
(* A directory used in one of its two modes: the first call made on it,    *)
(* LoadUsers or LoadUsersFromDatabase, decides which                       *)

AllThreads == FileThreads \cup DbThreads

InitEither ==
    /\ InitPure({<<>>})
    /\ InitCore(AllThreads)
    /\ pc = [t \in AllThreads |-> IF t = Main THEN "idle" ELSE "unborn"]
    /\ InitFileVars(AllThreads)
    /\ InitDbVars(AllThreads)

\* the files matter to a directory in file mode only, the table to one in
\* database mode only
NextEither ==
    \/ ndb = 0 /\ ntbl = 0 /\ NextFile
    \/ nload = 0 /\ nwrite = 0 /\ NextDb

SpecEither == InitEither /\ [][NextEither]_vars

----------------------------------------------------------------------------
(* A directory in one of its two modes that is queried by a reader while   *)
(* its background task reloads                                             *)

TheReader == <<"reader", 1>>

ServeThreads == AllThreads \cup {TheReader}

InitServe ==
    /\ InitPure({<<>>})
    /\ InitCore(ServeThreads)
    /\ pc = [t \in ServeThreads |-> IF t \in {Main, TheReader} THEN "idle" ELSE "unborn"]
    /\ InitFileVars(ServeThreads)
    /\ InitDbVars(ServeThreads)

NextServe ==
    \/ ndb = 0 /\ ntbl = 0 /\ NextWatch
    \/ nload = 0 /\ nwrite = 0 /\ NextDb
    \/ exited = "" /\ (reads < MaxServeReads \/ pc[TheReader] # "idle") /\ Read(TheReader)

SpecServe == InitServe /\ [][NextServe]_vars

----------------------------------------------------------------------------
(* The pattern loops on their own: lines 290-300 of loadUserIndex and      *)
(* lines 147-158 of updateUsersData, applied to every pattern list of up   *)
(* to MaxPatterns patterns                                                 *)

Patterns == {"", "*", "^10\\.", "["}

PatternLists == UNION {[1..n -> Patterns] : n \in 0..MaxPatterns}

\* lines 283-302 run on a file whose one entry "a:x" has the patterns cin
CompileFileEntry ==
    /\ cout.file = <<>>
    /\ cout' = [cout EXCEPT !.file = <<ParseEntries((kAX :> cin), <<kAX>>, 1)>>]
    /\ UNCHANGED <<inner, wlock, rlocks, pc, users, m, idx, ret, snaps, readVars, calls, cin>>
    /\ UNCHANGED <<configFile, files, watching, events, loc, result, built,
                   nload, nwrite, wevents, attempts>>
    /\ UNCHANGED <<tbl, notes, subscribed, exited, dbres, dloc, lastDetect, conns, queries,
                   ndb, ndone, ntbl>>

\* lines 140-170 run on a row of a table with the addresses column whose
\* address values are cin
CompileRow ==
    /\ cout.row = <<>>
    /\ cout' = [cout EXCEPT !.row = <<RowUser(TRUE, Row(nA, sX, cin))>>]
    /\ UNCHANGED <<inner, wlock, rlocks, pc, users, m, idx, ret, snaps, readVars, calls, cin>>
    /\ UNCHANGED <<configFile, files, watching, events, loc, result, built,
                   nload, nwrite, wevents, attempts>>
    /\ UNCHANGED <<tbl, notes, subscribed, exited, dbres, dloc, lastDetect, conns, queries,
                   ndb, ndone, ntbl>>

InitCompile ==
    /\ InitPure(PatternLists)
    /\ InitCore({Main})
    /\ pc = [t \in {Main} |-> "idle"]
    /\ InitFileVars({Main})
    /\ InitDbVars({Main})

NextCompile ==
    \/ CompileFileEntry
    \/ CompileRow

SpecCompile == InitCompile /\ [][NextCompile]_vars

----------------------------------------------------------------------------
(* Properties of the Users set, checked under SpecUsers                    *)

\* the snapshots a call of reader r that has read may have been answered from:
\* the one active when the call began, or one swapped in since
OldOrNew(r) == cur[r].lo..Len(snaps)

\* C1: a single Get or Len call that runs while Reset calls are replacing the
\* mapping returns what one complete mapping gives: the mapping that was
\* active when the call began or the complete mapping of a Reset that has
\* swapped since; never the answer of a partly filled or mixed mapping.
C1_SingleReadSeesOneSnapshot ==
    \A r \in Readers :
        pc[r] = "G_runlock" =>
            \E j \in OldOrNew(r) : cur[r].res = Answer(cur[r].op, cur[r].key, snaps[j])

\* C1 witness: a call that began under the old mapping, overlapped a Reset
\* and was answered from the new mapping, whose answer differs
C1_Witness ==
    \E r \in Readers :
        /\ pc[r] = "G_runlock"
        /\ cur[r].during
        /\ cur[r].lo < Len(snaps)
        /\ cur[r].res # Answer(cur[r].op, cur[r].key, snaps[cur[r].lo])
        /\ cur[r].res = Answer(cur[r].op, cur[r].key, snaps[Len(snaps)])

\* a logical read: the calls of reader r are Gets of pairwise different
\* names, at least two, each made while a Reset was in progress
LogicalRead(r) ==
    /\ Len(rlog[r]) >= 2
    /\ \A i \in DOMAIN rlog[r] : rlog[r][i].op = "Get" /\ rlog[r][i].during
    /\ \A i, j \in DOMAIN rlog[r] : i # j => rlog[r][i].key # rlog[r][j].key

\* entry e of a log is what snapshot j answers
AnsweredBy(e, j) == e.res = Answer(e.op, e.key, snaps[j])

\* C2 as stated: in a logical read made while a Reset is in progress, all
\* results are resolved against one and the same snapshot.
C2_Original_OneSnapshotPerLogicalRead ==
    \A r \in Readers :
        LogicalRead(r) =>
            \E j \in DOMAIN snaps : \A i \in DOMAIN rlog[r] : AnsweredBy(rlog[r][i], j)

\* the entries of log from position i on are answered by snapshots that
\* never go back, starting no earlier than snapshot from
RECURSIVE NeverBackwards(_, _, _)
NeverBackwards(log, i, from) ==
    \/ i > Len(log)
    \/ \E j \in from..Len(snaps) :
          /\ AnsweredBy(log[i], j)
          /\ NeverBackwards(log, i + 1, j)

\* C2 amended: each call of a reader is resolved against one complete
\* snapshot, and over the reader's successive calls the snapshots never go
\* backwards: once a result comes from the new snapshot, no later result
\* comes from the old one (earlier results may still be the old ones).
C2_ReadsNeverGoBackwards ==
    \A r \in Readers : NeverBackwards(rlog[r], 1, 1)

\* C2 witness: a logical read of two names whose first result only the old
\* snapshot gives and whose second result only the new one gives
C2_Witness ==
    \E r \in Readers :
        /\ LogicalRead(r)
        /\ Len(snaps) = 3
        /\ AnsweredBy(rlog[r][1], 2) /\ ~AnsweredBy(rlog[r][1], 3)
        /\ AnsweredBy(rlog[r][2], 3) /\ ~AnsweredBy(rlog[r][2], 2)

----------------------------------------------------------------------------
(* Properties of file mode, checked under SpecFile                         *)

LoadErrors == {"configuration file not set", "Failed to read auth file",
               "Invalid JSON", "Invalid user:pass string", "Invalid address regex"}

\* the thread is in a load attempt and past its file read
PastRead(t) == pc[t] \in {"L_ret"} \cup ResetPcs

\* a key without a principal name: no colon, or nothing before the first one
KeyHasNoName(k) == k = <<>> \/ k[1] = ":" \/ \A i \in 1..Len(k) : k[i] # ":"

\* a file content no load may accept
BadContent(b) ==
    \/ b.kind # "json"
    \/ \E k \in DOMAIN b.obj :
          \/ KeyHasNoName(k)
          \/ \E i \in 1..Len(b.obj[k]) : b.obj[k][i] \in BadPatterns

\* Len and every Get give the same on both mappings
SameAnswers(m1, m2) ==
    /\ Answer("Len", nA, m1) = Answer("Len", nA, m2)
    /\ \A n \in Names : Answer("Get", n, m1) = Answer("Get", n, m2)

\* C3: a load attempt (initial or started by a watch task) that meets an
\* empty path, an unreadable file, malformed JSON, a key with an empty name
\* or an invalid regex in any entry returns an error; a failed attempt has
\* not called Reset, and unless another thread's Reset swapped meanwhile Len
\* and every Get answer as they did when the attempt began.
C3_FailedLoadLeavesSetUntouched ==
    \A t \in FileThreads :
        /\ PastRead(t) /\ BadContent(loc[t].b) => pc[t] = "L_ret" /\ loc[t].err \in LoadErrors
        /\ pc[t] = "L_ret" /\ loc[t].err # "" =>
              /\ loc[t].resets = 0
              /\ Len(snaps) = loc[t].sv => SameAnswers(inner, loc[t].before)

\* C3 witness: a watch task's reload has failed on an invalid regex in one
\* entry while principals loaded earlier are in the set
C3_Witness ==
    \E w \in WatchThreads :
        /\ pc[w] = "L_ret"
        /\ loc[w].err = "Invalid address regex"
        /\ loc[w].b = fBadRegex
        /\ MapLen(inner) = 2

\* the name and secret each key of the valid files stands for
Credential(k) ==
    CASE k = kAX  -> [Name |-> nA, Pass |-> sX]
      [] k = kAY  -> [Name |-> nA, Pass |-> sY]
      [] k = kBY  -> [Name |-> nB, Pass |-> sY]
      [] k = kAXY -> [Name |-> nA, Pass |-> <<"x", ":", "y">>]

\* the matcher list a pattern list stands for
Matchers(ps) ==
    [i \in 1..Len(ps) |-> IF ps[i] \in {"", "*"} THEN UserAllowAll ELSE Regexp(ps[i])]

\* the principal that key k of the object obj describes
Principal(obj, k) == User(Credential(k).Name, Credential(k).Pass, Matchers(obj[k]))

InputNames(obj) == {Credential(k).Name : k \in DOMAIN obj}

\* thread t has just swapped in the mapping of the file content loc[t].b
JustLoaded(t) == pc[t] = "R_unlock"

\* C4 as stated: after a successful load Len is the number of distinct names
\* and, for every key of the input, Get of its name returns that key's
\* secret and matcher list.
C4_Original_EveryKeyIsReturned ==
    \A t \in FileThreads :
        JustLoaded(t) =>
            LET obj == loc[t].b.obj
            IN  /\ MapLen(inner) = Cardinality(InputNames(obj))
                /\ \A k \in DOMAIN obj :
                      MapGet(inner, Credential(k).Name) = <<Principal(obj, k)>>

\* C4 amended: after a successful load Len is the number of distinct names
\* among the input keys, and for each such name Get returns the secret and
\* the matcher list of one input key that carries the name, both taken from
\* the same key (so exactly that key's when the name occurs once).
C4_LoadedSetMatchesInput ==
    \A t \in FileThreads :
        JustLoaded(t) =>
            LET obj == loc[t].b.obj
            IN  /\ MapLen(inner) = Cardinality(InputNames(obj))
                /\ \A n \in InputNames(obj) :
                      \E k \in DOMAIN obj :
                          /\ Credential(k).Name = n
                          /\ MapGet(inner, n) = <<Principal(obj, k)>>

\* C4 witness: a load of the file whose two keys share the name "a" has
\* swapped, and the set holds the one principal "a"
C4_Witness ==
    \E t \in FileThreads :
        /\ JustLoaded(t)
        /\ loc[t].b = fDup
        /\ MapLen(inner) = 1
        /\ MapGet(inner, nA) = <<Principal(fDup.obj, kAY)>>

\* C5: two successful loads of the same file content build the same mapping.
C5_SameFileSameSnapshot ==
    \A x \in built : \A y \in built : x.b = y.b => x.snap = y.snap

\* C6: a step that starts a watch task is taken by a LoadUsers call whose
\* initial load has returned without error after calling Reset; a LoadUsers
\* call whose initial load failed returns that error, starts no watch task
\* and has not called Reset.
C6_WatchOnlyAfterSuccessfulLoad ==
    [][ /\ \A w \in WatchThreads :
              pc[w] = "unborn" /\ pc'[w] # "unborn" =>
                  /\ pc[Main] = "A_248"
                  /\ loc[Main].err = ""
                  /\ loc[Main].resets = 1
        /\ pc[Main] = "L_ret" /\ loc[Main].err # "" /\ pc'[Main] # "L_ret" =>
              /\ result' = loc[Main].err
              /\ pc'[Main] = "idle"
              /\ loc[Main].resets = 0
              /\ inner' = inner
              /\ \A w \in WatchThreads : pc[w] = "unborn" => pc'[w] = "unborn"
      ]_vars

\* C6 witness: a second LoadUsers call has failed in its initial load and
\* returned the error; only the first call's watch task exists
C6_Witness ==
    /\ nload = 2
    /\ pc[Main] = "idle"
    /\ result = "Invalid address regex"
    /\ pc[<<"watch", 1>>] # "unborn"
    /\ \A w \in WatchThreads : w # <<"watch", 1>> => pc[w] = "unborn"

\* the write events among the events a watch task has not received yet
RECURSIVE PendingWrites(_)
PendingWrites(q) ==
    IF q = <<>> THEN 0
    ELSE (IF "Write" \in Head(q) THEN 1 ELSE 0) + PendingWrites(Tail(q))

\* C8: a running watch task starts exactly one reload per write event it
\* receives and none for any other event, which it drops leaving the set as
\* it is; every write event sent to it is eventually followed by its reload
\* attempt, also after attempts that failed; and what LoadUsers returned to
\* its caller changes only by a step of that caller.
C8_EveryWriteEventReloadsOnce ==
    /\ [](\A w \in WatchThreads : attempts[w] + PendingWrites(events[w]) = wevents[w])
    /\ [][\A w \in WatchThreads :
             (events[w] # <<>> /\ events'[w] = Tail(events[w])
                 /\ ~("Write" \in Head(events[w]))) =>
                 (attempts'[w] = attempts[w] /\ pc'[w] = pc[w] /\ inner' = inner)]_vars
    /\ [][result' # result => pc'[Main] # pc[Main]]_vars
    /\ \A w \in WatchThreads : \A n \in 1..MaxWrites :
          (wevents[w] >= n) ~> (attempts[w] >= n /\ pc[w] = "W_wait")

\* C8 witness: after one LoadUsers call its watch task has been sent two
\* write events and has made two reload attempts, of which only the second
\* swapped in a mapping (the first one failed); it waits for the next event
C8_Witness ==
    /\ nload = 1
    /\ wevents[<<"watch", 1>>] = 2
    /\ attempts[<<"watch", 1>>] = 2
    /\ pc[<<"watch", 1>>] = "W_wait"
    /\ loc[<<"watch", 1>>].err = ""
    /\ Len(snaps) = 3

----------------------------------------------------------------------------
(* Properties of database mode, checked under SpecDb                       *)

\* C7: a listen task exists only once the LoadUsersFromDatabase call that
\* starts it has completed its initial load (connect, query, Reset) with
\* success: the i-th task needs i calls that returned nil.
C7_ListenOnlyAfterInitialLoad ==
    \A l \in ListenThreads : pc[l] # "unborn" => ndone >= l[2]

\* the usernames of a result set
RowNames(rows) == {rows[i].username : i \in DOMAIN rows}

\* C9: each reload looks the addresses column up anew. A reload that finds
\* no such column gives every loaded principal the allow-all matcher alone;
\* a reload that finds the column builds each principal's matcher list from
\* the address values of that principal's row and nothing else.
C9_ColumnDetectedOnEveryReload ==
    \A t \in DbThreads :
        pc[t] = "R_unlock" =>
            /\ DOMAIN inner = RowNames(dloc[t].rows)
            /\ \A n \in DOMAIN inner :
                  IF dloc[t].detected
                  THEN \E i \in DOMAIN dloc[t].rows :
                          /\ dloc[t].rows[i].username = n
                          /\ inner[n].Addrs = Matchers(dloc[t].rows[i].addresses)
                  ELSE inner[n].Addrs = <<UserAllowAll>>

\* C9 witness: the first load found no addresses column and gave "a" the
\* allow-all matcher; the table then gained the column and a listen task's
\* reload has swapped in "a" with the matcher of its row's address value
C9_Witness ==
    \E l \in ListenThreads :
        /\ pc[l] = "R_unlock"
        /\ dloc[l].detected
        /\ dloc[l].rows = tColumn.rows
        /\ Len(snaps) = 3
        /\ snaps[2][nA].Addrs = <<UserAllowAll>>
        /\ inner[nA].Addrs = <<Regexp("^10\\.")>>
        /\ inner[nB].Addrs = <<UserAllowAll, Regexp("^10\\.")>>

\* a name of the form ^[A-Za-z_][A-Za-z0-9_]*$
IsIdentifier(name) ==
    /\ name # <<>>
    /\ Head(name) \notin Digits
    /\ \A i \in DOMAIN name : name[i] \in Letters \cup Digits \cup {"_"}

\* the current LoadUsersFromDatabase call was given a table name that is no
\* identifier
BadTableCall ==
    /\ dbres # "none"
    /\ dloc[Main].tn # <<>>
    /\ ~IsIdentifier(dloc[Main].tn[1])

\* the table name a SELECT text was built with
TableOf(q) == Tail(q)

\* C10: a call with a table name that is no identifier never gets past the
\* name check (no connection, no query text, no listen task, no Reset), the
\* process keeps running and the call returns an error to its caller; and
\* every SELECT text built names an identifier.
C10_BadTableNameReturnsError ==
    /\ BadTableCall =>
          /\ pc[Main] \in {"D_185", "idle"}
          /\ exited = ""
          /\ pc[Main] = "idle" => dbres = "invalid table name"
    /\ \A q \in queries : IsIdentifier(TableOf(q))

\* the part of C10 that does not depend on how the rejection is reported:
\* a call with such a name stays at the name check, so it never reaches the
\* code that connects, builds the query, starts the listen task or calls
\* Reset, and every SELECT text built names an identifier
BadTableNameGoesNoFurther ==
    /\ BadTableCall => pc[Main] = "D_185"
    /\ \A q \in queries : IsIdentifier(TableOf(q))

----------------------------------------------------------------------------
(* Properties of the pattern loops, checked under SpecCompile              *)

\* the pattern list has no pattern that fails to compile
AllCompile(ps) == \A i \in DOMAIN ps : ps[i] \notin BadPatterns

\* the matcher list is what the pattern list asks for: as many matchers as
\* patterns, in their order, allow-all for "" and "*", a regular expression
\* of the pattern otherwise
MatchersAsAsked(addrs, ps) ==
    /\ Len(addrs) = Len(ps)
    /\ \A i \in DOMAIN ps :
          /\ ps[i] \in {"", "*"} => addrs[i] = UserAllowAll
          /\ ps[i] \notin {"", "*"} => addrs[i] = Regexp(ps[i])
    /\ ps = <<>> => addrs = <<>>
    /\ (\E i \in DOMAIN ps : ps[i] = "*") => (\E i \in DOMAIN addrs : addrs[i] = UserAllowAll)

\* C11: a load turns each pattern "" or "*" into the allow-all matcher and
\* every other pattern into a regular-expression matcher, in input order; an
\* empty pattern list gives zero matchers, and a list with a literal pattern
\* and "*" gives both matchers. This holds for an entry of the file and for
\* a row of the table alike.
C11_PatternsBecomeMatchersInOrder ==
    AllCompile(cin) =>
        /\ cout.file # <<>> =>
              /\ cout.file[1].err = ""
              /\ Len(cout.file[1].users) = 1
              /\ MatchersAsAsked(cout.file[1].users[1].Addrs, cin)
        /\ cout.row # <<>> =>
              /\ ~cout.row[1].err
              /\ MatchersAsAsked(cout.row[1].user.Addrs, cin)

\* C11 witness: the list of a literal pattern, "*" and "" has gone through
\* both loops and came out as a regular expression followed by two allow-all
\* matchers
C11_Witness ==
    /\ cin = <<"^10\\.", "*", "">>
    /\ cout.file # <<>> /\ cout.row # <<>>
    /\ cout.file[1].users[1].Addrs = <<Regexp("^10\\."), UserAllowAll, UserAllowAll>>
    /\ cout.row[1].user.Addrs = <<Regexp("^10\\."), UserAllowAll, UserAllowAll>>

----------------------------------------------------------------------------
(* Properties of the load and reload paths of both modes, checked under    *)
(* SpecEither                                                              *)

\* mp is the mapping of the complete file object obj: its names are the
\* names of all keys and each name has the principal of one of its keys
MappingOfFile(mp, obj) ==
    /\ DOMAIN mp = InputNames(obj)
    /\ \A n \in DOMAIN mp :
          \E k \in DOMAIN obj : Credential(k).Name = n /\ mp[n] = Principal(obj, k)

\* mp is the mapping of the complete result set rows: its names are the
\* usernames of all rows and each name has the password of one of its rows
MappingOfRows(mp, rows) ==
    /\ DOMAIN mp = RowNames(rows)
    /\ \A n \in DOMAIN mp :
          \E i \in DOMAIN rows :
              /\ rows[i].username = n
              /\ mp[n].Name = n
              /\ mp[n].Pass = rows[i].password

\* thread t is in a load attempt of file mode (past the check of the path,
\* where its locals are set up) / of database mode
InFileAttempt(t) == pc[t] \in {"L_275", "L_ret"} \/ (pc[t] \in ResetPcs /\ ret[t] = "L_ret")
InDbAttempt(t) == pc[t] \in {"U_119", "U_128", "U_ret"} \/ (pc[t] \in ResetPcs /\ ret[t] = "U_ret")

\* C12: the active mapping is the initial empty one or the latest complete
\* mapping swapped in; a step that changes it is the swap of one load
\* attempt and makes it exactly the mapping of that attempt's complete input
\* (all entries of a file no load may reject, all rows of the result set);
\* an attempt calls Reset at most once, when its whole list is built, and
\* not at all when it fails.
C12_ActiveMappingIsOneCompleteLoad ==
    /\ [](inner = snaps[Len(snaps)] /\ snaps[1] = EmptyMap)
    /\ [][inner' # inner =>
             \E t \in AllThreads :
                 /\ pc[t] = "R_swap" /\ pc'[t] = "R_unlock"
                 /\ ret[t] = "L_ret" =>
                       ~BadContent(loc[t].b) /\ MappingOfFile(inner', loc[t].b.obj)
                 /\ ret[t] = "U_ret" => MappingOfRows(inner', dloc[t].rows)]_vars
    /\ [](\A t \in AllThreads :
             /\ InFileAttempt(t) =>
                   /\ loc[t].resets = (IF pc[t] \in ResetPcs THEN 1 ELSE IF pc[t] = "L_ret" /\ loc[t].err = "" THEN 1 ELSE 0)
                   /\ pc[t] = "R_new" => Len(users[t]) = Cardinality(DOMAIN loc[t].b.obj)
             /\ InDbAttempt(t) =>
                   /\ dloc[t].resets = (IF pc[t] \in ResetPcs \cup {"U_ret"} THEN 1 ELSE 0)
                   /\ pc[t] = "R_new" => Len(users[t]) = Len(dloc[t].rows))

\* C12 witness: a listen task's reload has swapped in the second mapping
\* after the initial load's, built from both rows of the changed table
C12_Witness ==
    \E l \in ListenThreads :
        /\ pc[l] = "R_unlock"
        /\ Len(snaps) = 3
        /\ dloc[l].rows = tColumn.rows
        /\ snaps[2] # inner
        /\ MapLen(inner) = 2

----------------------------------------------------------------------------
(* Properties of a directory queried while it reloads, checked under       *)
(* SpecServe                                                               *)

\* the positions of a reload before it takes the write lock: the file read
\* and parse, the column lookup, the SELECT and row scan, the staging of m
BeforeLock == {"L_272", "L_275", "U_119", "U_128", "R_new", "R_stage"}

\* no thread is between Lock and Unlock
NoSwapUnderWay == \A t \in AllThreads : pc[t] \notin {"R_swap", "R_unlock"}

\* C13: a reload that is reading, querying, scanning, compiling or staging
\* does not hold the write lock; the lock is held only from Lock over the
\* one assignment to Unlock; so a Get or Len that asks for the read lock
\* gets it whenever no swap is under way, and a call during which no swap
\* happened returns what the old snapshot gives.
C13_NoLockDuringLoadAndStaging ==
    /\ [](\A t \in AllThreads : pc[t] \in BeforeLock => wlock # t)
    /\ [](wlock # NoThread => pc[wlock] \in {"R_swap", "R_unlock"})
    /\ [][\A t \in AllThreads :
             wlock = t /\ pc'[t] # pc[t] =>
                 \/ pc[t] = "R_swap" /\ pc'[t] = "R_unlock" /\ wlock' = t
                 \/ pc[t] = "R_unlock" /\ wlock' = NoThread /\ inner' = inner]_vars
    /\ [](pc[TheReader] = "G_rlock" /\ NoSwapUnderWay /\ exited = ""
             => ENABLED ReadRLock(TheReader))
    /\ [](pc[TheReader] = "G_runlock" /\ cur[TheReader].lo = Len(snaps) =>
             cur[TheReader].res =
                 Answer(cur[TheReader].op, cur[TheReader].key, snaps[cur[TheReader].lo]))

\* C13 witness: while a listen task's reload is staging its second
\* principal, a Get made during this reload holds the read lock and has read
\* the old snapshot's principal
C13_Witness ==
    \E w \in ListenThreads :
        /\ pc[w] = "R_stage" /\ idx[w] = 1 /\ Len(users[w]) = 2
        /\ pc[TheReader] = "G_runlock"
        /\ cur[TheReader].during
        /\ cur[TheReader].op = "Get"
        /\ cur[TheReader].res = MapGet(snaps[Len(snaps)], cur[TheReader].key)
        /\ cur[TheReader].res # <<>>
        /\ wlock = NoThread

----------------------------------------------------------------------------
(* Properties of the listen task, checked under FairSpecDb                 *)

\* C14: a listen task runs the reload sequence once for every notification
\* it receives: while it waits, as many runs have completed as notifications
\* were received; while it reloads, exactly the latest notification's run is
\* outstanding, so the runs of one task never overlap and follow the order
\* of the notifications; a run that completes has made one Reset call; and
\* every notification received is followed by the completion of its run,
\* unless the process ends on an error.
C14_OneReloadPerNotification ==
    /\ [](\A l \in ListenThreads :
             /\ pc[l] = "N_233" => dloc[l].done = dloc[l].recv
             /\ InDbAttempt(l) => dloc[l].done + 1 = dloc[l].recv
             /\ pc[l] \in {"unborn", "N_212", "N_225"} => dloc[l].recv = 0)
    /\ [][\A l \in ListenThreads :
             dloc'[l].done # dloc[l].done =>
                 /\ dloc'[l].done = dloc[l].done + 1
                 /\ dloc[l].resets = 1
                 /\ pc[l] = "U_ret" /\ pc'[l] = "N_233"]_vars
    /\ \A l \in ListenThreads : \A n \in 1..MaxTblChanges :
          (dloc[l].recv >= n) ~> (exited # "" \/ (dloc[l].done >= n /\ pc[l] = "N_233"))

\* C14 witness: a listen task has received two notifications and completed
\* two runs, each of which swapped in a mapping after the initial load's
C14_Witness ==
    \E l \in ListenThreads :
        /\ dloc[l].recv = 2 /\ dloc[l].done = 2
        /\ pc[l] = "N_233"
        /\ Len(snaps) = 4
        /\ exited = ""

----------------------------------------------------------------------------
(* Properties of the failures of the listen task, checked under SpecDb     *)

\* why the process ended when a listen task could not connect, could not
\* subscribe or failed in its wait
ListenFailures == {"Error in connecting the database", "Unable to execute LISTEN command",
                   "Error waiting for notification"}

\* C15: a listen task that fails to connect, to subscribe or in its wait
\* stops for good. The failing step leaves the principal set as it is, and
\* after it no task takes another step: no retry, no wait, no reload, no
\* new connection or query, and the set keeps its value.
C15_ListenFailureStopsForGood ==
    /\ [][exited = "" /\ exited' \in ListenFailures =>
             /\ \E l \in ListenThreads : pc[l] \in {"N_212", "N_225", "N_233"}
             /\ inner' = inner /\ pc' = pc]_vars
    /\ [][(exited # "" /\ exited \in ListenFailures) =>
             /\ exited' = exited
             /\ pc' = pc /\ inner' = inner /\ dloc' = dloc
             /\ notes' = notes /\ subscribed' = subscribed
             /\ conns' = conns /\ queries' = queries]_vars

\* C15 witness: a listen task that had reloaded the set once has failed in
\* its wait for the next notification; the set holds the reloaded principals
C15_Witness ==
    \E l \in ListenThreads :
        /\ exited = "Error waiting for notification"
        /\ pc[l] = "N_233"
        /\ dloc[l].done = 1
        /\ MapLen(inner) = 2

\* C16: an invalid address regex met by a reload that a notification
\* started aborts that reload only: it does not end the process, so the
\* listen task keeps running and serves later notifications. The process
\* may end on this error only in the initial load of a call.
C16_BackgroundReloadErrorIsSwallowed ==
    [][(exited = "" /\ exited' = "Invalid address regex") => pc[Main] = "U_128"]_vars

----------------------------------------------------------------------------
(* Properties of repeated calls on one directory, checked under SpecEither *)

\* the background tasks that have been started; none of them ever ends while
\* the process runs
WatchTasks == {w \in WatchThreads : pc[w] # "unborn"}
ListenTasks == {l \in ListenThreads : pc[l] # "unborn"}

\* C17: whatever calls of LoadUsers and LoadUsersFromDatabase were made on
\* the directory, at most one watch task and at most one listen task exist.
C17_AtMostOneTaskOfEachKind ==
    /\ Cardinality(WatchTasks) <= 1
    /\ Cardinality(ListenTasks) <= 1

----------------------------------------------------------------------------
(* Properties of concurrent database reloads, checked under SpecDb         *)

\* the threads that have read the table, and the one whose SELECT ran last
HaveQueried == {t \in DbThreads : dloc[t].qn > 0}
LastToQuery == CHOOSE t \in HaveQueried : \A s \in HaveQueried : dloc[s].qn <= dloc[t].qn

\* the initial load has returned nil and every listen task that has read
\* the table has completed its reloads and waits
AllLoadsFinished ==
    /\ pc[Main] = "idle" /\ dbres = "nil"
    /\ \A l \in ListenThreads : dloc[l].qn > 0 => pc[l] = "N_233"

\* C18: once the initial load and the reloads of the listen task have
\* finished, the active snapshot is the one of the load whose SELECT ran
\* last: a snapshot of an older read has not replaced one of a newer read.
C18_NewerReadWins ==
    AllLoadsFinished /\ exited = "" => inner = FullMap(users[LastToQuery])

----------------------------------------------------------------------------
(* Properties of the notifications, checked under FairSpecDb               *)

\* the active snapshot is what the table holds now: a principal for every
\* row, with the row's password and, when the table has the addresses
\* column, the matchers of the row's address values
ReflectsTable ==
    /\ MappingOfRows(inner, tbl.rows)
    /\ \A n \in DOMAIN inner :
          \E i \in DOMAIN tbl.rows :
              /\ tbl.rows[i].username = n
              /\ inner[n].Addrs = (IF tbl.hasAddr THEN Matchers(tbl.rows[i].addresses)
                                   ELSE <<UserAllowAll>>)

\* the table has been changed since the initial load's SELECT read it
ChangedAfterInitialRead == dloc[Main].qn > 0 /\ tbl.rows # dloc[Main].rows

\* C19: a change of the table made after the initial load's SELECT has read
\* it is eventually reflected in the active snapshot, unless the process
\* ends on an error; none is missed for having been made before the listen
\* task subscribed.
C19_ChangesAreEventuallyReflected ==
    ChangedAfterInitialRead ~> (ReflectsTable \/ exited # "")

----------------------------------------------------------------------------
(* Properties of the path a watch task reloads from, checked under SpecFile *)

\* C20: a watch task registered on path P reloads from P: every reload
\* attempt it makes checks and reads the path its watcher was added on,
\* whatever LoadUsers calls, failed or not, were made since with other
\* paths.
C20_WatchReloadsFromItsOwnPath ==
    \A w \in WatchThreads :
        pc[w] \in {"L_275", "L_ret"} \cup ResetPcs => loc[w].path = watching[w]

====
